---- MODULE Spec2Model ----
(***************************************************************************)
(* A model of split_cl.py: SplitCLs (the greedy merge of CL candidates in  *)
(* a trie keyed by path) and the loop of SplitCl that picks a reviewer for *)
(* every CL and prints or uploads it.                                      *)
(*                                                                         *)
(* Paths are sequences of one-character strings: the trie is a plain       *)
(* Trie, whose keys are the characters of the path (the code rebuilds a    *)
(* path with ''.join(key)).                                                *)
(*                                                                         *)
(* ChangeList objects live in the sequence units and are named by their    *)
(* index: the trie, the items of a pass and the returned list hold         *)
(* references.  candidates.items() is a list (the program is Python 2), so *)
(* a pass of the merge loop walks the entries the trie had when the pass   *)
(* began.  A failed assertion of _EnsureOwners is no CalledProcessError:   *)
(* it leaves SplitCl as an exception (pc = "failed").                      *)
(*                                                                         *)
(* A second program, ninjalog_uploader.py, is modelled beside it: main     *)
(* finds the ninja log with GetNinjalog and builds the metadata with       *)
(* RemoveBuildDir.  A token of the command line is a sequence of           *)
(* one-character strings, as a path is.                                    *)
(***************************************************************************)
EXTENDS Integers, Sequences, FiniteSets, TLC

\* ------------------------------------------------------------------ bounds

\* The largest number of affected files of a change.
MaxFiles == 2

\* The largest number of tokens of a ninja command line.
MaxArgs == 3

\* ------------------------------------------------------- program constants

max_cl_size == 1000

\* --------------------------------------------------------------- the inputs

Approvers == {"alice", "bob"}

\* Changed bytes of one file: small, more than half the target, over the target.
Sizes == {60, 600, 2000}

Root == << >>
P_a == <<"a">>
P_ax == <<"a", "/", "x">>
P_axy == <<"a", "/", "x", "y">>
P_ay == <<"a", "/", "y">>
P_ab == <<"a", "/", "b">>
P_abx == <<"a", "/", "b", "/", "x">>
P_c == <<"c">>
P_cx == <<"c", "/", "x">>

\* The paths a changed file may have.  P_a is both a file (deleted) and the
\* directory of P_ax (added): one change can hold both.  P_ax and P_axy are
\* files of one directory, the name of one starting with the name of the other.
FilePaths == {P_a, P_ax, P_axy, P_ay, P_abx, P_cx}

\* The changes: the paths of their files, in the order of the paths.
Changes ==
  { <<P_a>>, <<P_ax>>, <<P_abx>>,
    <<P_a, P_ax>>, <<P_a, P_cx>>, <<P_ax, P_axy>>, <<P_ax, P_ay>>,
    <<P_abx, P_ax>>, <<P_ax, P_cx>>,
    <<P_ax, P_axy, P_ay>>, <<P_abx, P_ax, P_ay>> }

\* ------------------------------------------------------------ path helpers

\* The code point of a character, which orders the children of a trie node.
Ord(ch) ==
  CASE ch = "/" -> 47
    [] ch = "a" -> 97
    [] ch = "b" -> 98
    [] ch = "c" -> 99
    [] ch = "x" -> 120
    [] ch = "y" -> 121

\* p is a prefix of q, character by character (p = q included).
IsPrefix(p, q) ==
  /\ Len(p) <= Len(q)
  /\ SubSeq(q, 1, Len(p)) = p

\* The order in which a sorted trie yields its keys: a key before its
\* extensions, children by character.
PathLess(p, q) ==
  \E k \in 1..Len(q) :
     /\ k <= Len(p) + 1
     /\ SubSeq(p, 1, k - 1) = SubSeq(q, 1, k - 1)
     /\ IF k = Len(p) + 1 THEN TRUE ELSE Ord(p[k]) < Ord(q[k])

\* The index of the last "/" of p, 0 when there is none.
LastSlash(p) ==
  LET at == {i \in 1..Len(p) : p[i] = "/"}
  IN IF at = {} THEN 0 ELSE CHOOSE i \in at : \A j \in at : j <= i

RECURSIVE RStripSlash(_)
RStripSlash(p) ==
  IF p # << >> /\ p[Len(p)] = "/" THEN RStripSlash(SubSeq(p, 1, Len(p) - 1)) ELSE p

\* os.path.dirname: everything before the last "/", without trailing slashes
\* unless it is made of slashes only.
Dirname(p) ==
  LET head == SubSeq(p, 1, LastSlash(p))
  IN IF head # << >> /\ (\E i \in 1..Len(head) : head[i] # "/")
       THEN RStripSlash(head)
       ELSE head

\* The directories above p, the root excluded.
RECURSIVE Ancestors(_)
Ancestors(p) ==
  LET d == Dirname(p)
  IN IF d = << >> \/ d = p THEN {} ELSE {d} \cup Ancestors(d)

\* The paths the owners database is asked about for the files fp.
Relevant(fp) ==
  UNION {{fp[i]} \cup Ancestors(fp[i]) : i \in DOMAIN fp}

\* -------------------------------------------------------------------- state

VARIABLES
  files,         \* the affected files of the change (identities 1..n)
  fpath,         \* f.LocalPath() of every file
  fsize,         \* the changed bytes of every file (added + removed)
  cov,           \* the owners database: path -> the owners that cover it
  units,         \* the ChangeList objects ever built; an object is its index
  candidates,    \* the trie: <<key, object>> pairs in insertion order
  change_lists,  \* the list SplitCLs returns: objects
  how,           \* for every element of change_lists: "loop" or "drain"
  seeded,        \* the files step 1 has gone through
  edited,        \* the flag of the while loop
  items,         \* what is left of candidates.items() in the running pass
  pc,            \* where the program is
  dry_run,       \* the dry_run argument of SplitCl
  reviewers,     \* the set of used reviewers of SplitCl
  cl_index,      \* the position of the loop of SplitCl in change_lists
  uploads,       \* the calls of UploadCl: directory, files, reviewer
  printed,       \* the calls of PrintClInfo: directory, file_paths, reviewer
  run,           \* 1 in the first run of SplitCLs, 2 in a repeated one
  first,         \* what the first run returned, for a repeated run
  cmdline,       \* ninjalog_uploader: the command line passed to ninja
  npc,           \* ninjalog_uploader: where main is
  ni,            \* GetNinjalog: its index i, the tokens it has read
  ninjalog_dir,  \* GetNinjalog: the build directory found so far
  ninjalog,      \* main: the path GetNinjalog returned
  idx,           \* RemoveBuildDir: the tokens it has read
  new_cmdline    \* RemoveBuildDir: the tokens it has kept

vars == <<files, fpath, fsize, cov, units, candidates, change_lists, how,
          seeded, edited, items, pc, dry_run, reviewers, cl_index, uploads,
          printed, run, first, cmdline, npc, ni, ninjalog_dir, ninjalog, idx,
          new_cmdline>>

ninja == <<cmdline, npc, ni, ninjalog_dir, ninjalog, idx, new_cmdline>>

\* ninjalog_uploader does not run.
NinjaOff ==
  /\ cmdline = << >>
  /\ npc = "off"
  /\ ni = 0
  /\ ninjalog_dir = << >>
  /\ ninjalog = << >>
  /\ idx = 0
  /\ new_cmdline = << >>

input == <<files, fpath, fsize, cov>>
upload_state == <<dry_run, reviewers, cl_index, uploads, printed>>

\* ------------------------------------------------------------------ the trie

\* A trie whose sorting was not enabled: items() in the order of insertion.
SortingOff == FALSE

\* enable_sorting(): items() yields the keys in sorted order.
Sorting == TRUE

TrieKeys(t) == {t[i][1] : i \in DOMAIN t}

TrieHas(t, key) == key \in TrieKeys(t)

TrieGet(t, key) == t[CHOOSE i \in DOMAIN t : t[i][1] = key][2]

\* t[key] = value: a key that is there keeps its place and gets the value.
TrieSet(t, key, value) ==
  IF TrieHas(t, key)
    THEN [i \in DOMAIN t |-> IF t[i][1] = key THEN <<key, value>> ELSE t[i]]
    ELSE Append(t, <<key, value>>)

TrieDel(t, key) == SelectSeq(t, LAMBDA e : e[1] # key)

TrieItems(t) ==
  IF Sorting THEN SortSeq(t, LAMBDA x, y : PathLess(x[1], y[1])) ELSE t

\* keys(prefix): the keys that start with the characters of prefix.
TrieKeysWithPrefix(t, prefix) == {k \in TrieKeys(t) : IsPrefix(prefix, k)}

\* ---------------------------------------------------------- owners database

\* The database has no owner for a path it holds no data about.
owners_of(p) == IF p \in DOMAIN cov THEN cov[p] ELSE {}

all_possible_owners(paths) == UNION {owners_of(p) : p \in paths}

files_not_covered_by(paths, owners) ==
  {p \in paths : owners_of(p) \cap owners = {}}

\* ------------------------------------------------------------ ChangeList

\* owners = {} stands for a _owners that is None or empty: the code tells
\* neither from the other ("if not self._owners").
ChangeList(path, fs) == [path |-> path, files |-> fs, owners |-> {}]

\* The paths _EnsureOwners asks the database about.
OwnerQuery(u) ==
  IF u.files = {} THEN {u.path} ELSE {fpath[f] : f \in u.files}

\* _owners after _EnsureOwners, before its assertion; {} makes it fail.
EnsureOwners(u) ==
  IF u.owners # {}
    THEN u.owners
    ELSE {o \in all_possible_owners(OwnerQuery(u)) :
            files_not_covered_by(OwnerQuery(u), {o}) = {}}

\* A GetCommonOwners that joins the owners of both.
GetCommonOwnersUnion(po, co) == po \cup co

GetCommonOwners(po, co) == po \cap co

\* A Merge that replaces the files of the parent by those of the other.
MergeReplacesFiles(parent, other, po, co) ==
  [parent EXCEPT !.owners = po \cap co, !.files = other.files]

\* A Merge that leaves the owners of the parent as they are.
MergeKeepsOwners(parent, other, po, co) ==
  [parent EXCEPT !.owners = po, !.files = parent.files \cup other.files]

\* A Merge that takes the owners of the other for those of the result.
MergeTakesOwners(parent, other, po, co) ==
  [parent EXCEPT !.owners = co, !.files = parent.files \cup other.files]

\* A Merge that forgets the files of the other.
MergeKeepsFiles(parent, other, po, co) ==
  [parent EXCEPT !.owners = po \cap co]

\* parent.Merge(other), the owners of both already ensured as po and co.
Merge(parent, other, po, co) ==
  [parent EXCEPT !.owners = GetCommonOwners(po, co),
                 !.files = parent.files \cup other.files]

RECURSIVE SumSize(_)
SumSize(fs) ==
  IF fs = {} THEN 0
  ELSE LET f == CHOOSE g \in fs : TRUE IN fsize[f] + SumSize(fs \ {f})

\* A size that counts the files of the CL, not their bytes.
GetChangeSizeInFiles(u) == Cardinality(u.files)

GetChangeSizeInBytes(u) == SumSize(u.files)

\* ------------------------------------------------------------------- start

Start(fp, fs, cv) ==
  /\ files = DOMAIN fp
  /\ fpath = fp
  /\ fsize = fs
  /\ cov = cv
  /\ units = << >>
  /\ candidates = << >>
  /\ change_lists = << >>
  /\ how = << >>
  /\ seeded = {}
  /\ edited = FALSE
  /\ items = << >>
  /\ pc = "seed"
  /\ dry_run = FALSE
  /\ reviewers = {}
  /\ cl_index = 1
  /\ uploads = << >>
  /\ printed = << >>
  /\ run = 1
  /\ first = << >>
  /\ NinjaOff

\* The files as git reports them: distinct, non-empty paths.  The files are
\* numbered in the order of their paths; step 1 takes them in any order.
ValidPaths(fp) ==
  /\ \A i \in DOMAIN fp : fp[i] \in FilePaths
  /\ \A i, j \in DOMAIN fp : i < j => PathLess(fp[i], fp[j])

Init ==
  \E fp \in {c \in Changes : Len(c) <= MaxFiles /\ ValidPaths(c)} :
    \E fs \in [DOMAIN fp -> Sizes] :
      \E cv \in [Relevant(fp) -> SUBSET Approvers] :
        Start(fp, fs, cv)

\* --------------------------------------------------------- SplitCLs, step 1

\* One turn of "for f in files": a set, so in any order.
Seed ==
  /\ pc = "seed"
  /\ \E f \in files \ seeded :
       /\ units' = Append(units, ChangeList(fpath[f], {f}))
       /\ candidates' = TrieSet(candidates, fpath[f], Len(units) + 1)
       /\ seeded' = seeded \cup {f}
       /\ edited' = (seeded' = files)
       /\ pc' = IF seeded' = files THEN "while" ELSE "seed"
  /\ UNCHANGED <<ninja, input, change_lists, how, items, upload_state, run, first>>

\* --------------------------------------------------------- SplitCLs, step 2

\* A pass that leaves the flag as the pass before it left it.
PassStartKeepsFlag == edited

\* "edited = False": the flag at the start of a pass.
PassStart == FALSE

\* "while edited": a pass starts on the items() of the trie as it is now.
WhileEnter ==
  /\ pc = "while"
  /\ edited
  /\ edited' = PassStart
  /\ items' = TrieItems(candidates)
  /\ pc' = "for"
  /\ UNCHANGED <<ninja, input, units, candidates, change_lists, how, seeded,
                 upload_state, run, first>>

\* The item the for loop is at.
CurPath == items[1][1]
CurId == items[1][2]

\* A count that misses one candidate of a subdirectory.
sub_cls_less_one == Cardinality(TrieKeysWithPrefix(candidates, CurPath)) - 2

\* A count that takes the candidate itself for one of a subdirectory.
sub_cls_with_self == Cardinality(TrieKeysWithPrefix(candidates, CurPath))

\* The number of candidates in subdirectories, as the code counts it.
sub_cls == Cardinality(TrieKeysWithPrefix(candidates, CurPath)) - 1

parent_path == Dirname(CurPath)

\* A test that also sends a top-level candidate up, into the root.
MergeableIntoRoot == sub_cls = 0

\* Is the candidate one the loop tries to merge into its parent directory?
Mergeable == sub_cls = 0 /\ Len(parent_path) >= 1

\* The trie and the objects once the candidate of the parent directory is
\* there: a new, empty ChangeList when the trie has none.
CandidatesWithParent ==
  IF TrieHas(candidates, parent_path)
    THEN candidates
    ELSE TrieSet(candidates, parent_path, Len(units) + 1)

\* A parent that is built with the path of the candidate.
UnitsWithParentAtPath ==
  IF TrieHas(candidates, parent_path)
    THEN units
    ELSE Append(units, ChangeList(CurPath, {}))

UnitsWithParent ==
  IF TrieHas(candidates, parent_path)
    THEN units
    ELSE Append(units, ChangeList(parent_path, {}))

ParentId == TrieGet(CandidatesWithParent, parent_path)

\* HaveCommonOwners asks the parent first, then the candidate.
ParentOwners == EnsureOwners(UnitsWithParent[ParentId])
CandidateOwners == EnsureOwners(UnitsWithParent[CurId])

\* A check that lets every candidate through.
HaveCommonOwnersAlways == TRUE

HaveCommonOwners == GetCommonOwners(ParentOwners, CandidateOwners) # {}

\* The parent after parent_cl.Merge(candidate).
MergedParent ==
  Merge(UnitsWithParent[ParentId], UnitsWithParent[CurId],
        ParentOwners, CandidateOwners)

\* A merge that leaves the candidate in the trie.
CandidatesAfterMergeKept == CandidatesWithParent

\* "del candidates[path]": the trie once the candidate is merged.
CandidatesAfterMerge == TrieDel(CandidatesWithParent, CurPath)

\* An emission that leaves the parent in the trie.
CandidatesAfterEmitKept == CandidatesAfterMerge

\* "del candidates[parent_path]": the trie once the parent is emitted.
CandidatesAfterEmit == TrieDel(CandidatesAfterMerge, parent_path)

\* The candidate has candidates below it, or lies at the top level.
VisitSkip ==
  /\ pc = "for"
  /\ items # << >>
  /\ ~Mergeable
  /\ items' = Tail(items)
  /\ UNCHANGED <<ninja, input, units, candidates, change_lists, how, seeded, edited,
                 pc, upload_state, run, first>>

\* The assertion of _EnsureOwners fails, for the parent or for the candidate
\* (which is asked only when the parent has owners).
VisitAssert ==
  /\ pc = "for"
  /\ items # << >>
  /\ Mergeable
  /\ ~(ParentOwners # {} /\ CandidateOwners # {})
  /\ candidates' = CandidatesWithParent
  /\ units' = IF ParentOwners = {}
                THEN UnitsWithParent
                ELSE [UnitsWithParent EXCEPT ![ParentId].owners = ParentOwners]
  /\ pc' = "failed"
  /\ UNCHANGED <<ninja, input, change_lists, how, seeded, edited, items,
                 upload_state, run, first>>

\* No common owner: the candidate stays, the owners of both are now known.
VisitNoCommon ==
  /\ pc = "for"
  /\ items # << >>
  /\ Mergeable
  /\ ParentOwners # {} /\ CandidateOwners # {}
  /\ ~HaveCommonOwners
  /\ candidates' = CandidatesWithParent
  /\ units' = [UnitsWithParent EXCEPT ![ParentId].owners = ParentOwners,
                                      ![CurId].owners = CandidateOwners]
  /\ items' = Tail(items)
  /\ UNCHANGED <<ninja, input, change_lists, how, seeded, edited, pc, upload_state,
                 run, first>>

\* The candidate is merged into the parent, which stays in the trie.
VisitMerge ==
  /\ pc = "for"
  /\ items # << >>
  /\ Mergeable
  /\ ParentOwners # {} /\ CandidateOwners # {}
  /\ HaveCommonOwners
  /\ GetChangeSizeInBytes(MergedParent) <= max_cl_size
  /\ edited' = TRUE
  /\ candidates' = CandidatesAfterMerge
  /\ units' = [UnitsWithParent EXCEPT ![ParentId] = MergedParent,
                                      ![CurId].owners = CandidateOwners]
  /\ items' = Tail(items)
  /\ UNCHANGED <<ninja, input, change_lists, how, seeded, pc, upload_state, run,
                 first>>

\* The candidate is merged into the parent, which is now larger than
\* max_cl_size: it goes to the list and leaves the trie.
VisitMergeEmit ==
  /\ pc = "for"
  /\ items # << >>
  /\ Mergeable
  /\ ParentOwners # {} /\ CandidateOwners # {}
  /\ HaveCommonOwners
  /\ GetChangeSizeInBytes(MergedParent) > max_cl_size
  /\ edited' = TRUE
  /\ candidates' = CandidatesAfterEmit
  /\ units' = [UnitsWithParent EXCEPT ![ParentId] = MergedParent,
                                      ![CurId].owners = CandidateOwners]
  /\ change_lists' = Append(change_lists, ParentId)
  /\ how' = Append(how, "loop")
  /\ items' = Tail(items)
  /\ UNCHANGED <<ninja, input, seeded, pc, upload_state, run, first>>

\* The for loop is through the items.
ForEnd ==
  /\ pc = "for"
  /\ items = << >>
  /\ pc' = "while"
  /\ UNCHANGED <<ninja, input, units, candidates, change_lists, how, seeded, edited,
                 items, upload_state, run, first>>

\* --------------------------------------------------------- SplitCLs, step 3

\* A drain that takes the candidates in the order they were inserted.
RemainingAsInserted == [i \in 1..Len(candidates) |-> candidates[i][2]]

\* The objects of the remaining candidates, in the order of items().
Remaining == [i \in 1..Len(candidates) |-> TrieItems(candidates)[i][2]]

Drain ==
  /\ pc = "while"
  /\ ~edited
  /\ change_lists' = change_lists \o Remaining
  /\ how' = how \o [i \in 1..Len(candidates) |-> "drain"]
  /\ pc' = "returned"
  /\ UNCHANGED <<ninja, input, units, candidates, seeded, edited, items,
                 upload_state, run, first>>

\* ------------------------------------------------------------------ SplitCl

\* SplitCLs has returned: SplitCl counts the CLs and starts its loop with no
\* used reviewer.  dry_run is an argument of SplitCl that nothing reads
\* before the loop; its value is drawn here.
Confirm ==
  /\ pc = "returned"
  /\ \E d \in BOOLEAN : dry_run' = d
  /\ reviewers' = {}
  /\ cl_index' = 1
  /\ pc' = "upload"
  /\ UNCHANGED <<ninja, input, units, candidates, change_lists, how, seeded, edited,
                 items, uploads, printed, run, first>>

\* The CL the loop of SplitCl is at.
CurCl == units[change_lists[cl_index]]

\* A _SelectReviewer that picks among all the owners, used or not.
unused_reviewers_all(owners, used_reviwers) == owners

\* _SelectReviewer: the owners a reviewer is picked from.
unused_reviewers(owners, used_reviwers) ==
  IF owners \ used_reviwers = {} THEN owners ELSE owners \ used_reviwers

\* The files SplitCl hands to UploadCl.
UploadFiles(cl) == files

\* One turn of the loop: a reviewer is picked, the CL is printed or uploaded.
Assign ==
  /\ pc = "upload"
  /\ cl_index <= Len(change_lists)
  /\ EnsureOwners(CurCl) # {}
  /\ units' = [units EXCEPT ![change_lists[cl_index]].owners =
                              EnsureOwners(CurCl)]
  /\ \E reviewer \in unused_reviewers(EnsureOwners(CurCl), reviewers) :
       /\ reviewers' = reviewers \cup {reviewer}
       /\ IF dry_run
            THEN /\ printed' = Append(printed,
                        [directory |-> CurCl.path,
                         file_paths |-> {fpath[f] : f \in CurCl.files},
                         reviewer |-> reviewer])
                 /\ UNCHANGED uploads
            ELSE /\ uploads' = Append(uploads,
                        [directory |-> CurCl.path,
                         files |-> UploadFiles(CurCl),
                         reviewer |-> reviewer])
                 /\ UNCHANGED printed
  /\ cl_index' = cl_index + 1
  /\ UNCHANGED <<ninja, input, candidates, change_lists, how, seeded, edited, items,
                 pc, dry_run, run, first>>

\* cl.GetOwners() fails on its assertion: the exception leaves SplitCl.
AssignAssert ==
  /\ pc = "upload"
  /\ cl_index <= Len(change_lists)
  /\ EnsureOwners(CurCl) = {}
  /\ pc' = "failed"
  /\ UNCHANGED <<ninja, input, units, candidates, change_lists, how, seeded, edited,
                 items, upload_state, run, first>>

\* The loop is through the list: back to the original branch, return 0.
Finish ==
  /\ pc = "upload"
  /\ cl_index > Len(change_lists)
  /\ pc' = "done"
  /\ UNCHANGED <<ninja, input, units, candidates, change_lists, how, seeded, edited,
                 items, upload_state, run, first>>

\* ------------------------------------------------------------ specification

Visit ==
  \/ VisitSkip
  \/ VisitAssert
  \/ VisitNoCommon
  \/ VisitMerge
  \/ VisitMergeEmit

Next ==
  \/ Seed
  \/ WhileEnter
  \/ Visit
  \/ ForEnd
  \/ Drain
  \/ Confirm
  \/ Assign
  \/ AssignAssert
  \/ Finish

Spec == Init /\ [][Next]_vars

\* The program is one sequential process that is never held back: a step
\* that it can take is taken.
\* The changes and sizes of the runs that are followed to their end.
LiveChanges == {<<P_a>>, <<P_abx>>, <<P_ax, P_ay>>}
LiveSizes == {60, 2000}

InitLive ==
  \E fp \in {c \in LiveChanges : Len(c) <= MaxFiles /\ ValidPaths(c)} :
    \E fs \in [DOMAIN fp -> LiveSizes] :
      \E cv \in [Relevant(fp) -> SUBSET Approvers] :
        Start(fp, fs, cv)

SpecLive == InitLive /\ [][Next]_vars /\ WF_vars(Next)

\* ----------------------------------------------------- a repeated SplitCLs

\* What SplitCLs returned: the path and the files of every CL, in order.
Result ==
  [i \in DOMAIN change_lists |->
     [path |-> units[change_lists[i]].path,
      files |-> units[change_lists[i]].files]]

\* SplitCLs is called again on the same files with the same owners database
\* (a dry run followed by the upload): step 1 takes the files in an order of
\* its own.
Rerun ==
  /\ pc = "returned"
  /\ run = 1
  /\ first' = Result
  /\ run' = 2
  /\ units' = << >>
  /\ candidates' = << >>
  /\ change_lists' = << >>
  /\ how' = << >>
  /\ seeded' = {}
  /\ edited' = FALSE
  /\ items' = << >>
  /\ pc' = "seed"
  /\ UNCHANGED <<ninja, input, upload_state>>

NextDet == Next \/ Rerun

SpecDet == Init /\ [][NextDet]_vars

\* ------------------------------------------- SplitCLs on unchecked input

\* Files as a caller of SplitCLs may pass them: an empty path, two files of
\* the same path.
RawChanges ==
  { <<Root>>, <<Root, P_ax>>, <<P_ax, P_ax>>, <<P_a, P_ax, P_ax>> }

InitRaw ==
  \E fp \in {c \in RawChanges : Len(c) <= MaxFiles} :
    \E fs \in [DOMAIN fp -> Sizes] :
      \E cv \in [Relevant(fp) -> SUBSET Approvers] :
        Start(fp, fs, cv)

SpecRaw == InitRaw /\ [][Next]_vars

\* ====================================================== ninjalog_uploader

\* The tokens of a command line: ninja, -C, -Co, o, o/ and the empty string.
T_n == <<"n">>
T_C == <<"-", "C">>
T_Co == <<"-", "C", "o">>
T_o == <<"o">>
T_oslash == <<"o", "/">>
T_empty == << >>

Tokens == {T_n, T_C, T_Co, T_o, T_oslash, T_empty}

Cmdlines == UNION {[1..n -> Tokens] : n \in 0..MaxArgs}

\* '.' and '.ninja_log'
Dot == <<".">>
NinjaLogName == <<".", "n", "i", "n", "j", "a", "_", "l", "o", "g">>

\* A startswith that only takes the prefix itself.
StartsWithWhole(s, prefix) == s = prefix

\* s.startswith(prefix)
StartsWith(s, prefix) ==
  /\ Len(prefix) <= Len(s)
  /\ SubSeq(s, 1, Len(prefix)) = prefix

\* os.path.join(a, b) of posixpath, for two arguments.
PathJoin(a, b) ==
  IF StartsWith(b, <<"/">>) THEN b
  ELSE IF a = << >> \/ a[Len(a)] = "/" THEN a \o b
  ELSE a \o <<"/">> \o b

\* split_cl does not run.
SplitOff ==
  /\ files = {}
  /\ fpath = << >>
  /\ fsize = << >>
  /\ cov = << >>
  /\ units = << >>
  /\ candidates = << >>
  /\ change_lists = << >>
  /\ how = << >>
  /\ seeded = {}
  /\ edited = FALSE
  /\ items = << >>
  /\ pc = "off"
  /\ dry_run = FALSE
  /\ reviewers = {}
  /\ cl_index = 1
  /\ uploads = << >>
  /\ printed = << >>
  /\ run = 1
  /\ first = << >>

split == <<input, units, candidates, change_lists, how, seeded, edited,
           items, pc, upload_state, run, first>>

\* main is about to call GetNinjalog(args.cmdline).
InitNinja ==
  /\ SplitOff
  /\ cmdline \in Cmdlines
  /\ npc = "ninjalog"
  /\ ni = 0
  /\ ninjalog_dir = Dot
  /\ ninjalog = << >>
  /\ idx = 0
  /\ new_cmdline = << >>

\* ------------------------------------------------------------- GetNinjalog

\* cmd = cmdline[i]: the indices of the code start at 0.
cmd == cmdline[ni + 1]

\* A cmd[len('-C'):] that forgets to cut the option off.
DirOfJoinedWhole(c) == c

\* cmd[len('-C'):]
DirOfJoined(c) == SubSeq(c, Len(T_C) + 1, Len(c))

\* cmd == '-C' and, after i += 1, i < len(cmdline): the next token is the
\* directory, and is read with it.
NinjalogNext ==
  /\ npc = "ninjalog"
  /\ ni < Len(cmdline)
  /\ cmd = T_C
  /\ ni + 1 < Len(cmdline)
  /\ ninjalog_dir' = cmdline[ni + 2]
  /\ ni' = ni + 2
  /\ UNCHANGED <<split, cmdline, npc, ninjalog, idx, new_cmdline>>

\* cmd.startswith('-C') and len(cmd) > len('-C'): the rest is the directory.
NinjalogJoined ==
  /\ npc = "ninjalog"
  /\ ni < Len(cmdline)
  /\ ~(cmd = T_C /\ ni + 1 < Len(cmdline))
  /\ StartsWith(cmd, T_C)
  /\ Len(cmd) > Len(T_C)
  /\ ninjalog_dir' = DirOfJoined(cmd)
  /\ ni' = ni + 1
  /\ UNCHANGED <<split, cmdline, npc, ninjalog, idx, new_cmdline>>

\* Any other token, a last '-C' among them.
NinjalogOther ==
  /\ npc = "ninjalog"
  /\ ni < Len(cmdline)
  /\ ~(cmd = T_C /\ ni + 1 < Len(cmdline))
  /\ ~(StartsWith(cmd, T_C) /\ Len(cmd) > Len(T_C))
  /\ ni' = ni + 1
  /\ UNCHANGED <<split, cmdline, npc, ninjalog_dir, ninjalog, idx,
                 new_cmdline>>

\* return os.path.join(ninjalog_dir, '.ninja_log')
NinjalogReturn ==
  /\ npc = "ninjalog"
  /\ ni >= Len(cmdline)
  /\ ninjalog' = PathJoin(ninjalog_dir, NinjaLogName)
  /\ npc' = "isfile"
  /\ UNCHANGED <<split, cmdline, ni, ninjalog_dir, idx, new_cmdline>>

\* -------------------------------------------------------------------- main

\* os.path.isfile(ninjalog) is false: main returns 1.
NoNinjalog ==
  /\ npc = "isfile"
  /\ npc' = "exit1"
  /\ UNCHANGED <<split, cmdline, ni, ninjalog_dir, ninjalog, idx,
                 new_cmdline>>

\* The log is there: GetMetadata calls RemoveBuildDir(cmdline).
GetMetadata ==
  /\ npc = "isfile"
  /\ npc' = "remove"
  /\ idx' = 0
  /\ new_cmdline' = << >>
  /\ UNCHANGED <<split, cmdline, ni, ninjalog_dir, ninjalog>>

\* ---------------------------------------------------------- RemoveBuildDir

\* cmdline[idx] == '-C': the option and the token after it are skipped.
RemoveOption ==
  /\ npc = "remove"
  /\ idx < Len(cmdline)
  /\ cmdline[idx + 1] = T_C
  /\ idx' = idx + 2
  /\ UNCHANGED <<split, cmdline, npc, ni, ninjalog_dir, ninjalog,
                 new_cmdline>>

\* cmdline[idx].startswith('-C'): the token is skipped.
RemoveJoined ==
  /\ npc = "remove"
  /\ idx < Len(cmdline)
  /\ cmdline[idx + 1] # T_C
  /\ StartsWith(cmdline[idx + 1], T_C)
  /\ idx' = idx + 1
  /\ UNCHANGED <<split, cmdline, npc, ni, ninjalog_dir, ninjalog,
                 new_cmdline>>

\* new_cmdline.append(cmdline[idx])
RemoveKeep ==
  /\ npc = "remove"
  /\ idx < Len(cmdline)
  /\ cmdline[idx + 1] # T_C
  /\ ~StartsWith(cmdline[idx + 1], T_C)
  /\ new_cmdline' = Append(new_cmdline, cmdline[idx + 1])
  /\ idx' = idx + 1
  /\ UNCHANGED <<split, cmdline, npc, ni, ninjalog_dir, ninjalog>>

\* return new_cmdline: the metadata are built.
RemoveReturn ==
  /\ npc = "remove"
  /\ idx >= Len(cmdline)
  /\ npc' = "done"
  /\ UNCHANGED <<split, cmdline, ni, ninjalog_dir, ninjalog, idx,
                 new_cmdline>>

NextNinja ==
  \/ NinjalogNext
  \/ NinjalogJoined
  \/ NinjalogOther
  \/ NinjalogReturn
  \/ NoNinjalog
  \/ GetMetadata
  \/ RemoveOption
  \/ RemoveJoined
  \/ RemoveKeep
  \/ RemoveReturn

SpecNinja == InitNinja /\ [][NextNinja]_vars

\* =================================================================== claims

\* SplitCLs has returned its list.
Returned == pc \in {"returned", "upload", "done"}

\* The CL at position i of the returned list.
Emitted(i) == units[change_lists[i]]

\* The positions of the list whose CL holds file f.
UnitsOf(f) == {i \in DOMAIN change_lists : f \in Emitted(i).files}

\* C1: once SplitCLs has returned, every file of the change is in the files
\* of exactly one CL of the returned list.
C1_Partition ==
  Returned => \A f \in files : Cardinality(UnitsOf(f)) = 1

\* A returned list of a CL emitted in the merge loop and a CL emitted after
\* it, for a change of several files.
C1_Witness ==
  /\ pc = "returned"
  /\ Cardinality(files) >= 2
  /\ \E i, j \in DOMAIN change_lists :
       /\ how[i] = "loop" /\ how[j] = "drain"
       /\ Emitted(i).files # {} /\ Emitted(j).files # {}

\* C2: for every CL of the list, every owner GetOwners() yields covers every
\* file of the CL, and a CL whose GetOwners() has returned has owners.
C2_Coverage ==
  \A i \in DOMAIN change_lists :
    /\ \A o \in EnsureOwners(Emitted(i)) :
         \A f \in Emitted(i).files : o \in cov[fpath[f]]
    /\ (pc \in {"upload", "done"} /\ i < cl_index) => Emitted(i).owners # {}

\* Reviewers were picked for a CL emitted in the merge loop and for a CL
\* emitted after it.
C2_Witness ==
  /\ pc = "done"
  /\ \E i, j \in DOMAIN change_lists :
       /\ how[i] = "loop" /\ how[j] = "drain"
       /\ Emitted(i).files # {} /\ Emitted(j).files # {}
       /\ Emitted(i).owners # {} /\ Emitted(j).owners # {}

\* C3: in a run that is no dry run, UploadCl is called once for every CL of
\* the list, with the path, the files and a reviewer of that CL.
C3_UploadOwnFiles ==
  (pc = "done" /\ ~dry_run) =>
     /\ Len(uploads) = Len(change_lists)
     /\ \A i \in DOMAIN uploads :
          /\ uploads[i].directory = Emitted(i).path
          /\ uploads[i].files = Emitted(i).files
          /\ uploads[i].reviewer \in Emitted(i).owners

\* C4: a repeated SplitCLs on the same files and the same owners database
\* returns CLs of the same paths and the same files in the same order,
\* whatever the order in which step 1 took the files.
C4_Determinism ==
  (run = 2 /\ Returned) => Result = first

\* The repeated run has returned several CLs, and its step 1 took the files
\* in an order other than that of their paths.
C4_Witness ==
  /\ run = 2
  /\ pc = "returned"
  /\ Len(change_lists) >= 2
  /\ Cardinality(files) >= 2
  /\ units[1].path = fpath[2]

\* C5: a CL emitted in the merge loop is larger than max_cl_size, a CL
\* emitted after the loop is not.
C5_Budget ==
  \A i \in DOMAIN change_lists :
    /\ how[i] = "loop" => GetChangeSizeInBytes(Emitted(i)) > max_cl_size
    /\ how[i] = "drain" => GetChangeSizeInBytes(Emitted(i)) <= max_cl_size

\* C6: when the run fails, no CL has been printed or uploaded.
C6_AllOrNothing ==
  pc = "failed" => (uploads = << >> /\ printed = << >>)

\* The input has a file of an empty path or two files of one path.
InvalidInput ==
  \/ \E f \in files : fpath[f] = Root
  \/ \E f, g \in files : f # g /\ fpath[f] = fpath[g]

\* C7: on a change with an empty path or with two files of one path the run
\* does not get past step 1, emits no CL and loses no file from the trie.
C7_InputRejected ==
  InvalidInput =>
     /\ pc \in {"seed", "failed"}
     /\ change_lists = << >>
     /\ \A f \in seeded :
          \E i \in DOMAIN candidates : f \in units[candidates[i][2]].files

\* C8: a file larger than max_cl_size on its own is the only file of the CL
\* that holds it, and that CL is emitted in the merge loop.
C8_LargeFileAlone ==
  \A f \in files :
    fsize[f] > max_cl_size =>
      /\ \A u \in DOMAIN units : f \in units[u].files => units[u].files = {f}
      /\ Returned => \A i \in UnitsOf(f) : how[i] = "loop"

\* The directories of the files of the change, the root excluded.
Dirs == {Dirname(fpath[f]) : f \in files} \ {Root}

\* The files that lie directly in directory d.
DirectFiles(d) == {f \in files : Dirname(fpath[f]) = d}

\* The owners that cover every file of fs.
CommonApprovers(fs) == {o \in Approvers : \A f \in fs : o \in cov[fpath[f]]}

\* The CL anchored at d is one, holds exactly the files directly in d and was
\* emitted after the loop.
OneUnitAtDrain(d) ==
  \E i \in DOMAIN change_lists :
    /\ Emitted(i).path = d
    /\ Emitted(i).files = DirectFiles(d)
    /\ how[i] = "drain"
    /\ \A j \in DOMAIN change_lists : Emitted(j).path = d => j = i

\* C9 as stated: the files directly in a directory, with a common approver
\* and a total size within max_cl_size, end in one CL anchored at the
\* directory, emitted after the loop.
C9_SameDirOneUnit ==
  Returned =>
    \A d \in Dirs :
      (/\ CommonApprovers(DirectFiles(d)) # {}
       /\ SumSize(DirectFiles(d)) <= max_cl_size)
      => OneUnitAtDrain(d)

\* Directory d lies at the top level, is not itself a changed file, and no
\* changed file lies in a subdirectory of it.
PlainTopDir(d) ==
  /\ Dirname(d) = Root
  /\ \A f \in files : fpath[f] # d
  /\ \A f \in files :
       IsPrefix(Append(d, "/"), fpath[f]) => Dirname(fpath[f]) = d

\* C9 as amended: the same for a top-level directory that is no changed file
\* and has no changed file in a subdirectory, when one approver covers every
\* file and the path of the directory.
C9_TopDirOneUnit ==
  Returned =>
    \A d \in Dirs :
      (/\ PlainTopDir(d)
       /\ CommonApprovers(DirectFiles(d)) \cap cov[d] # {}
       /\ SumSize(DirectFiles(d)) <= max_cl_size)
      => OneUnitAtDrain(d)

\* Two files of a top-level directory were merged into one CL at drain.
C9_Witness ==
  /\ pc = "returned"
  /\ \E d \in Dirs :
       /\ PlainTopDir(d)
       /\ CommonApprovers(DirectFiles(d)) \cap cov[d] # {}
       /\ SumSize(DirectFiles(d)) <= max_cl_size
       /\ Cardinality(DirectFiles(d)) = 2
       /\ OneUnitAtDrain(d)

\* Files f and g lie in one directory and no owner covers both; each has an
\* owner.
DisjointSiblings(f, g) ==
  /\ f # g
  /\ Dirname(fpath[f]) = Dirname(fpath[g])
  /\ cov[fpath[f]] # {} /\ cov[fpath[g]] # {}
  /\ cov[fpath[f]] \cap cov[fpath[g]] = {}

\* No ChangeList holds both f and g.
NeverTogether(f, g) ==
  \A u \in DOMAIN units : ~({f, g} \subseteq units[u].files)

\* C10 as stated: such files are never in one CL, and a change of just the
\* two returns two CLs, both emitted after the loop, each of one file and
\* with the owners of that file.
C10_DisjointTwoAtDrain ==
  \A f, g \in files :
    DisjointSiblings(f, g) =>
      /\ NeverTogether(f, g)
      /\ (Returned /\ files = {f, g}) =>
           /\ Len(change_lists) = 2
           /\ \A i \in DOMAIN change_lists :
                /\ how[i] = "drain"
                /\ \E h \in files :
                     /\ Emitted(i).files = {h}
                     /\ EnsureOwners(Emitted(i)) = cov[fpath[h]]

\* C10 as amended: such files are never in one CL, and when SplitCLs returns
\* on a change of just the two, each is the only file of exactly one CL,
\* whose owners are some of the owners of the file and not none; any other
\* CL of the list has no file.
C10_DisjointApart ==
  \A f, g \in files :
    DisjointSiblings(f, g) =>
      /\ NeverTogether(f, g)
      /\ (Returned /\ files = {f, g}) =>
           /\ \A h \in files :
                /\ Cardinality(UnitsOf(h)) = 1
                /\ \A i \in UnitsOf(h) :
                     /\ Emitted(i).files = {h}
                     /\ EnsureOwners(Emitted(i)) # {}
                     /\ EnsureOwners(Emitted(i)) \subseteq cov[fpath[h]]
           /\ \A i \in DOMAIN change_lists :
                Cardinality(Emitted(i).files) <= 1

\* A change of two such files has returned three CLs, one in the loop.
C10_Witness ==
  /\ pc = "returned"
  /\ \E f, g \in files : DisjointSiblings(f, g) /\ files = {f, g}
  /\ \E i \in DOMAIN change_lists : how[i] = "loop"
  /\ \E i \in DOMAIN change_lists : Emitted(i).files = {}

\* --------------------------------------------------------------------- C11

\* The changeset is one file that exactly one approver can approve.
SingleFile ==
  /\ Cardinality(files) = 1
  /\ \A f \in files : Cardinality(cov[fpath[f]]) = 1

\* C11 as stated: a changeset of one file with exactly one eligible approver
\* comes back as exactly one unit, anchored at the path of the file or at its
\* directory, whose file set is that file.
C11_SingleFileOneUnit ==
  (SingleFile /\ Returned) =>
    /\ Len(change_lists) = 1
    /\ \A f \in files :
         /\ Emitted(1).files = {f}
         /\ Emitted(1).path \in {fpath[f], Dirname(fpath[f])}

\* C11: a changeset of one file with exactly one eligible approver comes
\* back with exactly one unit that holds files; its file set is that file
\* and it is anchored at the path of the file or at one of its ancestor
\* directories; every other unit that comes back is an empty unit anchored
\* at an ancestor directory of the file.
C11_SingleFileOneHolder ==
  (SingleFile /\ Returned) =>
    \A f \in files :
      /\ Cardinality(UnitsOf(f)) = 1
      /\ \A i \in DOMAIN change_lists :
           /\ Emitted(i).files \in {{}, {f}}
           /\ Emitted(i).path \in {fpath[f]} \cup Ancestors(fpath[f])
           /\ Emitted(i).files = {} => Emitted(i).path # fpath[f]

\* The file a/b/x has come back in a unit anchored at a, two levels up,
\* alone in the output.
C11_Witness ==
  /\ SingleFile
  /\ pc = "returned"
  /\ Len(change_lists) = 1
  /\ Emitted(1).path = P_a
  /\ \A f \in files : fpath[f] = P_abx /\ Emitted(1).files = {f}

\* --------------------------------------------------------------------- C12

\* The reviewer _SelectReviewer returned last, as UploadCl or the dry run
\* received it.
Picked ==
  LET log == IF dry_run THEN printed ELSE uploads
  IN log[Len(log)].reviewer

\* C12: every call of _SelectReviewer returns an owner of the CL; an owner
\* that no earlier CL of the run got whenever the CL has one, a used one
\* only when every owner of the CL is used; and the used reviewers after the
\* call are those before it and the one returned.
C12_ReviewerAssignment ==
  [][cl_index' = cl_index + 1 =>
       LET owners == units'[change_lists[cl_index]].owners
           r == Picked'
       IN /\ r \in owners
          /\ owners \ reviewers # {} => r \notin reviewers
          /\ r \in reviewers => owners \subseteq reviewers
          /\ reviewers' = reviewers \cup {r}]_vars

\* Two CLs are uploaded; the second has both owners and got the one the
\* first did not get.
C12_Witness ==
  /\ pc = "done"
  /\ ~dry_run
  /\ Len(uploads) = 2
  /\ Emitted(2).owners = Approvers
  /\ uploads[1].reviewer # uploads[2].reviewer
  /\ reviewers = Approvers

\* --------------------------------------------------------------------- C13

\* The first component of a path: its top-level directory, or the path
\* itself when it is a top-level file.
TopComponent(p) ==
  IF \E k \in DOMAIN p : p[k] = "/"
    THEN SubSeq(p, 1, (CHOOSE k \in DOMAIN p :
                         /\ p[k] = "/"
                         /\ \A j \in 1..(k - 1) : p[j] # "/") - 1)
    ELSE p

\* No key of the trie and no CL of the list is anchored at the empty path,
\* and the files of a CL of the list are under one top-level component.
RootFree ==
  /\ \A k \in TrieKeys(candidates) : k # Root
  /\ \A i \in DOMAIN units : units[i].path # Root
  /\ \A i \in DOMAIN change_lists :
       \A f, g \in Emitted(i).files :
         TopComponent(fpath[f]) = TopComponent(fpath[g])

\* The visit of a candidate whose parent path is empty changes neither the
\* trie nor any CL.
TopLevelStays ==
  (pc = "for" /\ items # << >> /\ Dirname(items[1][1]) = Root) =>
    (candidates' = candidates /\ units' = units
       /\ change_lists' = change_lists)

\* C13: the root is never a unit: no entry of the trie and no emitted CL has
\* the empty path as anchor, a candidate whose parent path is empty is never
\* merged upward, and so no emitted CL holds files of two different
\* top-level directories.
C13_RootNeverUnit == []RootFree /\ [][TopLevelStays]_vars

\* The files a/x and c/x have come back in the CLs of a and of c, each merged
\* up to its top-level directory and no further.
C13_Witness ==
  /\ pc = "returned"
  /\ Len(change_lists) = 2
  /\ {Emitted(1).path, Emitted(2).path} = {P_a, P_c}
  /\ \A i \in 1..2 : Cardinality(Emitted(i).files) = 1
  /\ candidates # << >>

\* --------------------------------------------------------------------- C14

\* C14: no two CLs of the returned list are anchored at the same path, also
\* when the CL of a directory was emitted in the loop while other files of
\* the directory were still in the trie.
C14_DistinctAnchors ==
  \A i, j \in DOMAIN change_lists :
    i # j => Emitted(i).path # Emitted(j).path

\* --------------------------------------------------------------------- C15

\* The token begins with the two characters of -C.
IsDashC(t) == IF Len(t) >= 2 THEN t[1] = "-" /\ t[2] = "C" ELSE FALSE

\* The tokens of c at the positions K, in their order.
KeepAt(c, K) ==
  LET F[n \in 0..Len(c)] ==
        IF n = 0 THEN << >>
        ELSE IF n \in K THEN Append(F[n - 1], c[n]) ELSE F[n - 1]
  IN F[Len(c)]

\* Token k of c is the argument of an option -C: the token before it is -C
\* and is not itself the argument of one.
RECURSIVE IsArg(_, _)
IsArg(c, k) ==
  IF k <= 1 THEN FALSE ELSE c[k - 1] = T_C /\ ~IsArg(c, k - 1)

\* The positions the statement of C15 removes: every -C, every token after
\* a -C, every token that starts with -C.
RemovedAsStated(c) ==
  {k \in DOMAIN c : c[k] = T_C \/ IsDashC(c[k])}
    \cup {k \in DOMAIN c : IF k > 1 THEN c[k - 1] = T_C ELSE FALSE}

\* The positions RemoveBuildDir removes.
RemovedArgs(c) == {k \in DOMAIN c : IsArg(c, k) \/ IsDashC(c[k])}

NoDashC(c) == \A k \in DOMAIN c : ~IsDashC(c[k])

\* C15 as stated: RemoveBuildDir returns the tokens in their order without
\* any token equal to -C, any token that follows one, and any token that
\* starts with -C; the result has no token that starts with -C.
C15_BuildDirRemoved ==
  npc = "done" =>
    /\ new_cmdline = KeepAt(cmdline, DOMAIN cmdline \ RemovedAsStated(cmdline))
    /\ NoDashC(new_cmdline)

\* C15: RemoveBuildDir returns the tokens in their order without the
\* arguments of the options -C (the token after a -C that is not itself
\* such an argument) and without any token that starts with -C that is not
\* such an argument; the result has no token that starts with -C.
C15_BuildDirArgsRemoved ==
  npc = "done" =>
    /\ new_cmdline = KeepAt(cmdline, DOMAIN cmdline \ RemovedArgs(cmdline))
    /\ NoDashC(new_cmdline)

\* RemoveBuildDir has returned: it dropped an option -C with its directory
\* and kept another token.
C15_Witness ==
  /\ npc = "done"
  /\ \E k \in DOMAIN cmdline : IsArg(cmdline, k) /\ ~IsDashC(cmdline[k])
  /\ new_cmdline # << >>
  /\ Len(new_cmdline) = Len(cmdline) - 2

\* --------------------------------------------------------------------- C16

\* The positions that give a build directory as C16 states it: a -C with a
\* token after it, or a token -C<dir>.
DirOptions(c) ==
  {k \in DOMAIN c :
     (c[k] = T_C /\ k < Len(c)) \/ (IsDashC(c[k]) /\ Len(c[k]) > 2)}

DirAt(c, k) == IF c[k] = T_C THEN c[k + 1] ELSE SubSeq(c[k], 3, Len(c[k]))

LastOf(S) == CHOOSE k \in S : \A j \in S : j <= k

\* The directory of the last position of K, '.' when there is none.
LastDir(c, K) == IF K = {} THEN Dot ELSE DirAt(c, LastOf(K))

\* GetNinjalog has returned.
NinjalogKnown == npc \in {"isfile", "exit1", "remove", "done"}

\* C16 as stated: GetNinjalog returns <dir>/.ninja_log for the directory of
\* the last -C <dir> or -C<dir> of the command line, ./.ninja_log when there
\* is none; a -C at the end changes nothing.
C16_LastBuildDir ==
  NinjalogKnown =>
    ninjalog = LastDir(cmdline, DirOptions(cmdline)) \o <<"/">> \o NinjaLogName

\* The options among them: the positions that are not themselves the
\* directory of a -C before them.
RealDirOptions(c) == {k \in DirOptions(c) : ~IsArg(c, k)}

\* C16: GetNinjalog returns the directory of the last option -C <dir> or
\* -C<dir> of the command line (a token that is itself the directory of a -C
\* is no option), '.' when there is none, joined with .ninja_log: with a /
\* between them unless the directory is empty or ends with one; a -C at the
\* end changes nothing.
C16_LastRealBuildDir ==
  NinjalogKnown =>
    LET d == LastDir(cmdline, RealDirOptions(cmdline))
    IN ninjalog = IF d = << >> THEN NinjaLogName
                  ELSE IF d[Len(d)] = "/" THEN d \o NinjaLogName
                  ELSE d \o <<"/">> \o NinjaLogName

\* GetNinjalog has returned for a command line with the options -Co and
\* -C n: the second one wins.
C16_Witness ==
  /\ NinjalogKnown
  /\ cmdline = <<T_Co, T_C, T_n>>
  /\ ninjalog = T_n \o <<"/">> \o NinjaLogName

\* --------------------------------------------------------------------- C17

\* C17 as stated: the owners of every CL that holds a file are exactly the
\* approvers who can approve every file of the CL.
C17_OwnersExact ==
  \A n \in DOMAIN units :
    units[n].files # {} =>
      EnsureOwners(units[n]) = CommonApprovers(units[n].files)

\* The CL holds the one file it was built for in step 1.
Unmerged(u) == \E f \in files : u.files = {f} /\ u.path = fpath[f]

\* The CL was built as the empty CL of a parent directory.
BuiltEmpty(u) == \A f \in u.files : u.path # fpath[f]

\* C17: every owner of a CL that holds a file can approve every file of the
\* CL; the owners are exactly those approvers for a CL that holds only the
\* file it was built for; the owners of a CL built as an empty parent also
\* cover the path of its directory, so they can be fewer.
C17_OwnersSound ==
  \A n \in DOMAIN units :
    units[n].files # {} =>
      /\ EnsureOwners(units[n]) \subseteq CommonApprovers(units[n].files)
      /\ Unmerged(units[n]) =>
           EnsureOwners(units[n]) = CommonApprovers(units[n].files)
      /\ BuiltEmpty(units[n]) =>
           EnsureOwners(units[n]) \subseteq cov[units[n].path]

\* A CL built as an empty parent has come back with a file, and with fewer
\* owners than can approve the file.
C17_Witness ==
  /\ pc = "returned"
  /\ \E n \in DOMAIN change_lists :
       /\ Emitted(n).files # {}
       /\ BuiltEmpty(Emitted(n))
       /\ Emitted(n).owners # {}
       /\ Emitted(n).owners # CommonApprovers(Emitted(n).files)

\* --------------------------------------------------------------------- C18

\* The step is a merge: the candidate the pass is at leaves the trie.
MergeStep ==
  /\ pc = "for"
  /\ items # << >>
  /\ TrieHas(candidates, items[1][1])
  /\ ~TrieHas(candidates', items[1][1])

\* The sum of the sizes of a set of files.
SizeOf(fs) ==
  LET S[n \in 0..Cardinality(files)] ==
        IF n = 0 THEN 0
        ELSE S[n - 1] + (IF n \in fs THEN fsize[n] ELSE 0)
  IN S[Cardinality(files)]

\* C18: after parent.Merge(child) the files of the parent are the union of
\* the files of both, its size is the sum of the sizes of both, and its
\* owners are the intersection of the owners both had before; the merge
\* loop only merges when that intersection is not empty.
C18_MergeEffect ==
  [][MergeStep =>
       LET child == units[items[1][2]]
           p == CHOOSE n \in DOMAIN units' :
                  /\ units'[n].path = Dirname(items[1][1])
                  /\ \/ TrieHas(candidates', units'[n].path)
                        /\ TrieGet(candidates', units'[n].path) = n
                     \/ /\ Len(change_lists') = Len(change_lists) + 1
                        /\ change_lists'[Len(change_lists')] = n
           before == IF p \in DOMAIN units
                       THEN units[p]
                       ELSE [path |-> Dirname(items[1][1]), files |-> {},
                             owners |-> {}]
           after == units'[p]
       IN /\ after.files = before.files \cup child.files
          /\ SizeOf(after.files) = SizeOf(before.files) + SizeOf(child.files)
          /\ after.owners = EnsureOwners(before) \cap EnsureOwners(child)
          /\ after.owners # {}]_vars

\* A CL that held a file has taken another one in: it came back with both
\* files and a common owner.
C18_Witness ==
  /\ pc = "returned"
  /\ \E n \in DOMAIN change_lists :
       /\ Cardinality(Emitted(n).files) = 2
       /\ Emitted(n).owners # {}
       /\ Emitted(n).owners = CommonApprovers(Emitted(n).files)

\* --------------------------------------------------------------------- C19

\* C19: whenever the CL at a path P is merged into its parent, no other
\* entry of the trie has P as a strict prefix of its path.
C19_BottomUp ==
  [][MergeStep =>
       \A k \in TrieKeys(candidates) :
         k # items[1][1] => ~IsPrefix(items[1][1], k)]_vars

\* The CL of the directory a/b, which took in a/b/x, was merged into the CL
\* of a after the file a/x, which came back in the same CL.
C19_Witness ==
  /\ pc = "returned"
  /\ \E n \in DOMAIN change_lists :
       /\ Emitted(n).path = P_a
       /\ {fpath[f] : f \in Emitted(n).files} = {P_abx, P_ax}

\* --------------------------------------------------------------------- C20

\* The path q lies in the directory p or in one below it.
InDirectory(p, q) == IsPrefix(p \o <<"/">>, q)

\* An entry of the trie that a further pass ought to merge: its parent is
\* not the root, no entry lies in a subdirectory of its path, and it has an
\* owner in common with the candidate of its parent directory.
Unfinished(k) ==
  /\ Dirname(k) # Root
  /\ \A q \in TrieKeys(candidates) : ~InDirectory(k, q)
  /\ TrieHas(candidates, Dirname(k))
  /\ EnsureOwners(units[TrieGet(candidates, k)])
       \cap EnsureOwners(units[TrieGet(candidates, Dirname(k))]) # {}

\* C20: when the merge loop has stopped, the trie has no entry that a
\* further pass ought to merge; an entry whose name only starts with the
\* characters of the path (a/x and a/xy) does not keep a candidate back.
C20_FixedPoint ==
  pc = "returned" => \A k \in TrieKeys(candidates) : ~Unfinished(k)

\* --------------------------------------------------------------------- C21

\* The CLs that are neither in the trie nor in the list: a CL leaves the
\* trie for the list or by being merged, so these are the merged ones, one
\* for every merge of the run.
Merged ==
  {n \in DOMAIN units :
     /\ \A e \in DOMAIN candidates : candidates[e][2] # n
     /\ \A e \in DOMAIN change_lists : change_lists[e] # n}

\* The number of components of a path.
Depth(p) == Cardinality({k \in DOMAIN p : p[k] = "/"}) + 1

MaxDepth ==
  IF files = {} THEN 0
  ELSE CHOOSE d \in {Depth(fpath[f]) : f \in files} :
         \A f \in files : Depth(fpath[f]) <= d

MergeBound == Cardinality(Merged) <= Cardinality(files) * MaxDepth

\* C21 as stated: for every change and every owners database the merge loop
\* comes to a pass without a merge, the rest of the trie is appended and
\* SplitCLs returns; a run merges at most (files) x (largest depth) times.
C21_Terminates == <>(pc = "returned") /\ []MergeBound

\* C21: for every change and every owners database the merge loop either
\* fails on the assertion of _EnsureOwners or comes to a pass without a
\* merge, after which the rest of the trie is appended and SplitCLs
\* returns; a run merges at most (files) x (largest depth) times.
C21_TerminatesOrFails ==
  <>(pc = "returned" \/ pc = "failed") /\ []MergeBound

\* SplitCLs has returned after two passes with merges: a/b/x went up into
\* a/b and a/b went up into a.
C21_Witness ==
  /\ pc = "returned"
  /\ Cardinality(Merged) = 2
  /\ \E f \in files : fpath[f] = P_abx
  /\ Len(change_lists) = 1

\* --------------------------------------------------------------------- C22

\* The step moves files into a CL: a Merge has been done.
FilesMoved ==
  /\ pc = "for"
  /\ \/ \E n \in DOMAIN units :
          n \in DOMAIN units' /\ units'[n].files # units[n].files
     \/ \E n \in DOMAIN units' :
          n \notin DOMAIN units /\ units'[n].files # {}

\* The trie holds the key of the parent directory of the visited candidate.
ParentThere == items # << >> /\ TrieHas(candidates, Dirname(items[1][1]))

\* C22 as stated: the trie holds fewer entries after every step that merges
\* a CL into the CL of its parent directory than before it, also when the
\* step first creates the CL of the parent.
C22_MergeReduces ==
  [][FilesMoved => Len(candidates') < Len(candidates)]_vars

\* C22: a step that merges a CL into the CL of its parent directory never
\* adds to the entries of the trie: the trie holds fewer entries after the
\* step when the parent was in the trie before or is emitted in the step,
\* and as many as before when the step first creates the parent and the
\* parent stays in the trie.
C22_MergeNeverAdds ==
  [][FilesMoved =>
       /\ Len(candidates') <= Len(candidates)
       /\ (ParentThere \/ Len(change_lists') > Len(change_lists))
            => Len(candidates') < Len(candidates)
       /\ (~ParentThere /\ change_lists' = change_lists)
            => Len(candidates') = Len(candidates)]_vars

\* Both files of a change were merged into one CL of their directory: the
\* first merge created the parent, the second found it in the trie.
C22_Witness ==
  /\ pc = "returned"
  /\ Cardinality(files) = 2
  /\ Cardinality(Merged) = 2
  /\ Len(candidates) = 1
  /\ how = <<"drain">>

\* --------------------------------------------------------------------- C23

\* The list in its order: no CL of the loop after one of the drain, and the
\* CLs of the drain in the ascending order of their paths.
OutputOrdered ==
  /\ Len(how) = Len(change_lists)
  /\ \A m, n \in DOMAIN change_lists :
       m < n =>
         /\ how[m] = "drain" => how[n] = "drain"
         /\ (how[m] = "drain" /\ how[n] = "drain") =>
              PathLess(Emitted(m).path, Emitted(n).path)

\* The list only grows at its end: what is in it stays where it is.
AppendOnly ==
  /\ Len(change_lists') >= Len(change_lists)
  /\ SubSeq(change_lists', 1, Len(change_lists)) = change_lists
  /\ SubSeq(how', 1, Len(how)) = how
  /\ (pc = "for" /\ Len(change_lists') > Len(change_lists)) =>
       /\ Len(change_lists') = Len(change_lists) + 1
       /\ how'[Len(how')] = "loop"

\* C23: in the list SplitCLs returns every CL emitted in the merge loop
\* comes before every CL emitted at drain, the CLs of the loop are in the
\* order of their emission, and the CLs of the drain are in the ascending
\* order of their paths.
C23_OutputOrder == []OutputOrdered /\ [][AppendOnly]_vars

\* The list holds a CL of the loop and after it two CLs of the drain.
C23_Witness ==
  /\ pc = "returned"
  /\ how = <<"loop", "drain", "drain">>
  /\ PathLess(Emitted(2).path, Emitted(3).path)

\* --------------------------------------------------------------------- C24

\* Every CL of the list stays in its place with its files, its path and the
\* owners GetOwners answers with.
EmittedStay ==
  \A m \in DOMAIN change_lists :
    /\ m \in DOMAIN change_lists'
    /\ change_lists'[m] = change_lists[m]
    /\ units'[change_lists[m]].files = units[change_lists[m]].files
    /\ units'[change_lists[m]].path = units[change_lists[m]].path
    /\ EnsureOwners(units[change_lists[m]])'
         = EnsureOwners(units[change_lists[m]])

\* No entry of the trie refers to a CL emitted in the merge loop.
EmittedOutOfTrie ==
  \A m \in DOMAIN change_lists :
    how[m] = "loop" =>
      \A e \in DOMAIN candidates : candidates[e][2] # change_lists[m]

Absorbed(u) == u.files # {} /\ ~Unmerged(u)

\* Every CL of the trie that has taken in a merge is within max_cl_size.
MergedWithinBudget ==
  \A e \in DOMAIN candidates :
    Absorbed(units[candidates[e][2]]) =>
      SizeOf(units[candidates[e][2]].files) <= max_cl_size

\* C25: at the end of every pass every CL of the trie that has taken in a
\* merge has a size of at most max_cl_size; so, when no file of the change
\* has more than max_cl_size changed bytes, every CL of the list has a size
\* of at most 2 * max_cl_size.
C25_SizeBound ==
  /\ pc = "while" => MergedWithinBudget
  /\ (\A f \in files : fsize[f] <= max_cl_size) =>
       \A m \in DOMAIN change_lists :
         SizeOf(Emitted(m).files) <= 2 * max_cl_size

\* Two files of 600 bytes were merged and emitted in the loop as one CL of
\* 1200 bytes.
C25_Witness ==
  /\ pc = "returned"
  /\ \A f \in files : fsize[f] <= max_cl_size
  /\ how = <<"loop">>
  /\ SizeOf(Emitted(1).files) > max_cl_size
  /\ Cardinality(Emitted(1).files) = 2

\* --------------------------------------------------------------------- C26

\* C26: every CL of the list SplitCLs returns holds at least one file: the
\* CL of a parent directory that was built empty and took no candidate in
\* is not emitted.
C26_NoEmptyUnit ==
  Returned => \A m \in DOMAIN change_lists : Emitted(m).files # {}

\* --------------------------------------------------------------------- C27

\* The CLs the trie or the list leads to.
Live ==
  {candidates[e][2] : e \in DOMAIN candidates}
    \cup {change_lists[m] : m \in DOMAIN change_lists}

\* C27: in every state, every file of a CL of the trie or of the list has
\* the path of the CL or lies in the directory of that path or below it,
\* and every entry of the trie is stored under the path of its CL.
C27_AnchorContainment ==
  /\ \A n \in Live :
       \A f \in units[n].files :
         fpath[f] = units[n].path \/ InDirectory(units[n].path, fpath[f])
  /\ \A e \in DOMAIN candidates :
       units[candidates[e][2]].path = candidates[e][1]

\* The CL of the file a took in the file a/x: one file has the path of the
\* CL, the other lies in its directory.
C27_Witness ==
  /\ pc = "returned"
  /\ \E e \in DOMAIN candidates :
       /\ candidates[e][1] = P_a
       /\ {fpath[f] : f \in units[candidates[e][2]].files} = {P_a, P_ax}


====
